---- MODULE Spec2Model ----
(***************************************************************************)
(* GitHub user sync of cartography (cartography/intel/github/users.py):    *)
(* the two fetches, the organization check and enterprise-owner marking,   *)
(* the two Cypher loads into the graph, the cleanup job and the sync       *)
(* metadata merge.                                                         *)
(***************************************************************************)
EXTENDS Integers, Sequences, FiniteSets, TLC

(* ---------- bounds ---------- *)
\* longest member / owner list a fetch returns inside a sync run
MaxLen == 1
\* longest member / owner list in the reconciliation-only specification
MaxRecLen == 2
\* longest batch handed to a direct load call
MaxBatch == 2
\* number of sync runs
MaxRuns == 2
\* number of direct load calls
MaxCalls == 2
\* largest UPDATE_TAG
MaxTag == 2

(* ---------- values ---------- *)
\* Python None, and a property a node does not carry (Cypher: SET x = null
\* removes the property, reading a missing property gives null)
Null == "null"

Urls == {"u1", "u2"}

\* tests/data/github/users.py GITHUB_ORG_DATA shape: {url, login}
OrgDescs ==
    { [url |-> "o1", login |-> "l1"],
      [url |-> "o1", login |-> "l2"],
      [url |-> "o2", login |-> "l1"] }

\* JSON booleans of the GraphQL answers, Python True / False
True == "true"
False == "false"

Bool(b) == IF b THEN True ELSE False

\* the node part of an edge: {url, login, name, isSiteAdmin, email, company}
UserNode(u, p) ==
    CASE p = "a" -> [url |-> u, login |-> "login_a", name |-> "name_a",
                     isSiteAdmin |-> False, email |-> "mail_a", company |-> Null]
      [] p = "b" -> [url |-> u, login |-> "login_b", name |-> Null,
                     isSiteAdmin |-> True, email |-> Null, company |-> "co_b"]
      [] OTHER   -> [url |-> u, login |-> "login_c", name |-> "name_c",
                     isSiteAdmin |-> False, email |-> "mail_c", company |-> "co_c"]

\* organizationmemberedge: {hasTwoFactorEnabled, node, role}
MemberEdges ==
    { [hasTwoFactorEnabled |-> Null, role |-> "MEMBER", node |-> UserNode(u, "a")] : u \in Urls }
    \cup
    { [hasTwoFactorEnabled |-> True, role |-> "ADMIN", node |-> UserNode(u, "b")] : u \in Urls }

OrganizationRoles == {"OWNER", "DIRECT_MEMBER", "UNAFFILIATED"}

\* organizationenterpriseowneredge: {node, organizationRole}
OwnerEdges ==
    { [organizationRole |-> r, node |-> UserNode(u, "c")] : u \in Urls, r \in OrganizationRoles }

SeqsUpTo(S, n) == UNION { [1..k -> S] : k \in 0..n }

UrlsOf(edges) == { edges[i].node.url : i \in 1..Len(edges) }

(* ---------- get_enterprise_owners: the partition ---------- *)
IsUnaffiliated(owner) == owner.organizationRole = "UNAFFILIATED"

\* a partition that hands every owner to the unaffiliated load
unaffiliated_owners_unfiltered(edges) == edges

unaffiliated_owners(edges) == SelectSeq(edges, IsUnaffiliated)

IsAffiliated(owner) == ~IsUnaffiliated(owner)

\* a partition that keeps every owner as affiliated
affiliated_owners_unfiltered(edges) == edges

affiliated_owners(edges) == SelectSeq(edges, IsAffiliated)

(* ---------- _mark_users_as_enterprise_owners ---------- *)
\* the guard with the login comparison (line 145) left out
OrgsMatchUrlOnly(user_org_data, owner_org_data) ==
    user_org_data.url = owner_org_data.url

OrgsMatch(user_org_data, owner_org_data) ==
    /\ user_org_data.url = owner_org_data.url
    /\ user_org_data.login = owner_org_data.login

\* the url set taken from the first affiliated owner alone
owner_urls_of_first(affiliated_owner_data) ==
    IF affiliated_owner_data = << >> THEN {} ELSE {affiliated_owner_data[1].node.url}

owner_urls(affiliated_owner_data) == UrlsOf(affiliated_owner_data)

MarkUser(user, urls) ==
    [user EXCEPT !.node = [isEnterpriseOwner |-> Bool(user.node.url \in urls)] @@ user.node]

_mark_users_as_enterprise_owners(users, affiliated_owner_data) ==
    [i \in 1..Len(users) |-> MarkUser(users[i], owner_urls(affiliated_owner_data))]

(* ---------- the graph and the Cypher of the two loads ---------- *)
\* a node or relationship is a function from the names of the properties it
\* carries to their values
EmptyGraph == [orgs |-> {}, users |-> {}, rels |-> {}]

\* reading a property: null when the node does not carry it
Prop(n, k) == IF k \in DOMAIN n THEN n[k] ELSE Null

\* SET n.k = v: a null value removes the property
SetProp(n, k, v) ==
    IF v = Null
    THEN [x \in DOMAIN n \ {k} |-> n[x]]
    ELSE [x \in DOMAIN n \cup {k} |-> IF x = k THEN v ELSE n[x]]

\* SET n.lastupdated = $UpdateTag
SetLastUpdated(n, update_tag) ==
    [x \in DOMAIN n \cup {"lastupdated"} |-> IF x = "lastupdated" THEN update_tag ELSE n[x]]

\* MERGE (org:GitHubOrganization{id: $OrgUrl}) ON CREATE SET org.firstseen = timestamp()
\* SET org.username = $OrgLogin, org.lastupdated = $UpdateTag
MergeOrg(orgs, org_data, update_tag, ts) ==
    LET merged == IF \E n \in orgs : n.id = org_data.url
                  THEN orgs
                  ELSE orgs \cup { [id |-> org_data.url, firstseen |-> ts] }
    IN  { IF n.id = org_data.url
          THEN SetLastUpdated(SetProp(n, "username", org_data.login), update_tag)
          ELSE n : n \in merged }

\* the relationship MERGE with ON CREATE dropped: firstseen set on every run
MergeRelAlwaysStamp(rels, type, src, dst, update_tag, ts) ==
    { [type |-> type, src |-> src, dst |-> dst, firstseen |-> ts, lastupdated |-> update_tag] }
    \cup { r \in rels : ~(r.type = type /\ r.src = src /\ r.dst = dst) }

\* MERGE (u)-[r:<type>]->(org) ON CREATE SET r.firstseen = timestamp()
\* SET r.lastupdated = $UpdateTag
\* CREATE in place of MERGE: a new relationship whether or not one exists
MergeRelAlwaysCreate(rels, type, src, dst, update_tag, ts) ==
    rels \cup
    { [type |-> type, src |-> src, dst |-> dst, firstseen |-> ts, lastupdated |-> update_tag] }

MergeRel(rels, type, src, dst, update_tag, ts) ==
    LET merged == IF \E r \in rels : r.type = type /\ r.src = src /\ r.dst = dst
                  THEN rels
                  ELSE rels \cup { [type |-> type, src |-> src, dst |-> dst, firstseen |-> ts] }
    IN  { IF r.type = type /\ r.src = src /\ r.dst = dst
          THEN SetLastUpdated(r, update_tag)
          ELSE r : r \in merged }

\* CREATE in place of MERGE: a new node whether or not one with the id exists
MergeUserAlwaysCreate(users, url, ts) ==
    users \cup { [id |-> url, firstseen |-> ts] }

\* MERGE (u:GitHubUser{id: user.node.url}) ON CREATE SET u.firstseen = timestamp()
MergeUser(users, url, ts) ==
    IF \E n \in users : n.id = url
    THEN users
    ELSE users \cup { [id |-> url, firstseen |-> ts] }

\* the SET clause of load_organization_users
\* the member SET clause made to respect a flag already true, as if the
\* non-clobbering of the unaffiliated load applied to the member load too
SetOrganizationUserKeepingFlag(n, user, update_tag) ==
    LET n1 == SetProp(n, "fullname", user.node.name)
        n2 == SetProp(n1, "username", user.node.login)
        n3 == SetProp(n2, "has_2fa_enabled", user.hasTwoFactorEnabled)
        n4 == SetProp(n3, "role", user.role)
        n5 == SetProp(n4, "is_site_admin", user.node.isSiteAdmin)
        n6 == IF Prop(n5, "is_enterprise_owner") = True
              THEN n5
              ELSE SetProp(n5, "is_enterprise_owner", user.node.isEnterpriseOwner)
        n7 == SetProp(n6, "email", user.node.email)
        n8 == SetProp(n7, "company", user.node.company)
    IN  SetLastUpdated(n8, update_tag)

SetOrganizationUser(n, user, update_tag) ==
    LET n1 == SetProp(n, "fullname", user.node.name)
        n2 == SetProp(n1, "username", user.node.login)
        n3 == SetProp(n2, "has_2fa_enabled", user.hasTwoFactorEnabled)
        n4 == SetProp(n3, "role", user.role)
        n5 == SetProp(n4, "is_site_admin", user.node.isSiteAdmin)
        n6 == SetProp(n5, "is_enterprise_owner", user.node.isEnterpriseOwner)
        n7 == SetProp(n6, "email", user.node.email)
        n8 == SetProp(n7, "company", user.node.company)
    IN  SetLastUpdated(n8, update_tag)

\* the unaffiliated SET clause written as a copy of the member one: role and
\* has_2fa_enabled set from fields an owner edge does not have, that is to null
SetUnaffiliatedOwnerClobbering(n, user, update_tag) ==
    LET n1 == SetProp(n, "fullname", user.node.name)
        n2 == SetProp(n1, "username", user.node.login)
        n3 == SetProp(n2, "has_2fa_enabled", Null)
        n4 == SetProp(n3, "role", Null)
        n5 == SetProp(n4, "is_site_admin", user.node.isSiteAdmin)
        n6 == SetProp(n5, "is_enterprise_owner", True)
        n7 == SetProp(n6, "email", user.node.email)
        n8 == SetProp(n7, "company", user.node.company)
    IN  SetLastUpdated(n8, update_tag)

\* the SET clause of load_unaffiliated_owners
SetUnaffiliatedOwner(n, user, update_tag) ==
    LET n1 == SetProp(n, "fullname", user.node.name)
        n2 == SetProp(n1, "username", user.node.login)
        n3 == SetProp(n2, "is_site_admin", user.node.isSiteAdmin)
        n4 == SetProp(n3, "is_enterprise_owner", True)
        n5 == SetProp(n4, "email", user.node.email)
        n6 == SetProp(n5, "company", user.node.company)
    IN  SetLastUpdated(n6, update_tag)

\* one UNWIND row of load_organization_users
OrganizationUserRow(g, user, org_data, update_tag, ts) ==
    [g EXCEPT
       !.users = { IF n.id = user.node.url
                   THEN SetOrganizationUser(n, user, update_tag)
                   ELSE n : n \in MergeUser(g.users, user.node.url, ts) },
       !.rels = MergeRel(g.rels, "MEMBER_OF", user.node.url, org_data.url, update_tag, ts)]

\* the unaffiliated row without the forced is_enterprise_owner = TRUE
UnaffiliatedOwnerRowNoFlag(g, user, org_data, update_tag, ts) ==
    [g EXCEPT
       !.users = { IF n.id = user.node.url
                   THEN SetLastUpdated(
                          SetProp(SetProp(SetProp(SetProp(SetProp(n,
                            "fullname", user.node.name), "username", user.node.login),
                            "is_site_admin", user.node.isSiteAdmin),
                            "email", user.node.email), "company", user.node.company),
                          update_tag)
                   ELSE n : n \in MergeUser(g.users, user.node.url, ts) },
       !.rels = MergeRel(g.rels, "UNAFFILIATED", user.node.url, org_data.url, update_tag, ts)]

\* one UNWIND row of load_unaffiliated_owners
\* the unaffiliated row made to keep the two relationship types exclusive: it
\* deletes the owner's MEMBER_OF relationship to the organization
UnaffiliatedOwnerRowExclusive(g, user, org_data, update_tag, ts) ==
    [g EXCEPT
       !.users = { IF n.id = user.node.url
                   THEN SetUnaffiliatedOwner(n, user, update_tag)
                   ELSE n : n \in MergeUser(g.users, user.node.url, ts) },
       !.rels = MergeRel({ r \in g.rels : ~(r.type = "MEMBER_OF" /\ r.src = user.node.url
                                             /\ r.dst = org_data.url) },
                         "UNAFFILIATED", user.node.url, org_data.url, update_tag, ts)]

UnaffiliatedOwnerRow(g, user, org_data, update_tag, ts) ==
    [g EXCEPT
       !.users = { IF n.id = user.node.url
                   THEN SetUnaffiliatedOwner(n, user, update_tag)
                   ELSE n : n \in MergeUser(g.users, user.node.url, ts) },
       !.rels = MergeRel(g.rels, "UNAFFILIATED", user.node.url, org_data.url, update_tag, ts)]

RECURSIVE OrganizationUserRows(_, _, _, _, _)
OrganizationUserRows(g, rows, org_data, update_tag, ts) ==
    IF rows = << >> THEN g
    ELSE OrganizationUserRows(OrganizationUserRow(g, Head(rows), org_data, update_tag, ts),
                              Tail(rows), org_data, update_tag, ts)

RECURSIVE UnaffiliatedOwnerRows(_, _, _, _, _)
UnaffiliatedOwnerRows(g, rows, org_data, update_tag, ts) ==
    IF rows = << >> THEN g
    ELSE UnaffiliatedOwnerRows(UnaffiliatedOwnerRow(g, Head(rows), org_data, update_tag, ts),
                               Tail(rows), org_data, update_tag, ts)

\* the whole query of load_organization_users; ts is the query's timestamp()
load_organization_users(g, rows, org_data, update_tag, ts) ==
    OrganizationUserRows([g EXCEPT !.orgs = MergeOrg(g.orgs, org_data, update_tag, ts)],
                         rows, org_data, update_tag, ts)

\* the whole query of load_unaffiliated_owners
load_unaffiliated_owners(g, rows, org_data, update_tag, ts) ==
    UnaffiliatedOwnerRows([g EXCEPT !.orgs = MergeOrg(g.orgs, org_data, update_tag, ts)],
                          rows, org_data, update_tag, ts)

\* github_users_cleanup.json: relationships not stamped by this run are pruned
run_cleanup_job(g, update_tag) ==
    [g EXCEPT !.rels = { r \in g.rels : r.lastupdated = update_tag }]

(* ---------- state ---------- *)
VARIABLES
    graph,                   \* the neo4j graph: GitHubOrganization and GitHubUser nodes, relationships
    clock,                   \* the database's timestamp() of the latest query
    metadata,                \* the module sync metadata merged so far
    pc,                      \* the statement of sync that runs next
    runs,                    \* sync calls so far
    steps,                   \* the calls of this sync run that have returned
    raised,                  \* the call of this sync run that raised, if any
    update_tag,              \* common_job_parameters['UPDATE_TAG']
    user_data,               \* sync's locals
    user_org_data,
    owners_edges,            \* owners.edges inside get_enterprise_owners
    affiliated_owner_data,
    unaffiliated_owner_data,
    owner_org_data,
    processed_user_data,
    graph0,                  \* the graph when this sync run began
    metadata0,               \* the metadata when this sync run began
    call,                    \* the latest direct load call and its arguments
    ncalls                   \* direct load calls so far

locals == <<user_data, user_org_data, owners_edges, affiliated_owner_data,
            unaffiliated_owner_data, owner_org_data, processed_user_data>>

runvars == <<pc, runs, steps, raised, update_tag, graph0, metadata0>>

vars == <<graph, clock, metadata, runvars, locals, call, ncalls>>

NoOrg == [url |-> Null, login |-> Null]

NoCall == [kind |-> Null, rows |-> << >>, org_data |-> NoOrg, update_tag |-> 0]

Init ==
    /\ graph = EmptyGraph
    /\ clock = 0
    /\ metadata = {}
    /\ pc = "return"
    /\ runs = 0
    /\ steps = << >>
    /\ raised = Null
    /\ update_tag = 0
    /\ user_data = << >>
    /\ user_org_data = NoOrg
    /\ owners_edges = << >>
    /\ affiliated_owner_data = << >>
    /\ unaffiliated_owner_data = << >>
    /\ owner_org_data = NoOrg
    /\ processed_user_data = << >>
    /\ graph0 = EmptyGraph
    /\ metadata0 = {}
    /\ call = NoCall
    /\ ncalls = 0

(* ---------- sync ---------- *)
\* a caller enters sync with its UPDATE_TAG
Sync ==
    /\ pc \in {"return", "raise"}
    /\ runs < MaxRuns
    /\ runs' = runs + 1
    /\ \E t \in 1..MaxTag : update_tag' = t
    /\ pc' = "get_users"
    /\ steps' = << >>
    /\ raised' = Null
    /\ graph0' = graph
    /\ metadata0' = metadata
    /\ user_data' = << >>
    /\ user_org_data' = NoOrg
    /\ owners_edges' = << >>
    /\ affiliated_owner_data' = << >>
    /\ unaffiliated_owner_data' = << >>
    /\ owner_org_data' = NoOrg
    /\ processed_user_data' = << >>
    /\ UNCHANGED <<graph, clock, metadata, call, ncalls>>

GetUsers(maxlen) ==
    /\ pc = "get_users"
    /\ \E edges \in SeqsUpTo(MemberEdges, maxlen), org \in OrgDescs :
          /\ user_data' = edges
          /\ user_org_data' = org
    /\ pc' = "get_enterprise_owners"
    /\ steps' = Append(steps, "get_users")
    /\ UNCHANGED <<graph, clock, metadata, runs, raised, update_tag, graph0, metadata0,
                   owners_edges, affiliated_owner_data, unaffiliated_owner_data,
                   owner_org_data, processed_user_data, call, ncalls>>

GetEnterpriseOwners(maxlen) ==
    /\ pc = "get_enterprise_owners"
    /\ \E edges \in SeqsUpTo(OwnerEdges, maxlen), org \in OrgDescs :
          /\ owners_edges' = edges
          /\ affiliated_owner_data' = affiliated_owners(edges)
          /\ unaffiliated_owner_data' = unaffiliated_owners(edges)
          /\ owner_org_data' = org
    /\ pc' = "_mark_users_as_enterprise_owners"
    /\ steps' = Append(steps, "get_enterprise_owners")
    /\ UNCHANGED <<graph, clock, metadata, runs, raised, update_tag, graph0, metadata0,
                   user_data, user_org_data, processed_user_data, call, ncalls>>

\* marking without the organization guard of lines 143-146
MarkUsersAsEnterpriseOwnersUnguarded ==
    /\ pc = "_mark_users_as_enterprise_owners"
    /\ processed_user_data' = _mark_users_as_enterprise_owners(user_data, affiliated_owner_data)
    /\ pc' = "load_organization_users"
    /\ steps' = Append(steps, "_mark_users_as_enterprise_owners")
    /\ UNCHANGED <<graph, clock, metadata, runs, raised, update_tag, graph0, metadata0,
                   user_data, user_org_data, owners_edges, affiliated_owner_data,
                   unaffiliated_owner_data, owner_org_data, call, ncalls>>

\* the guard moved below the loop of lines 148-153: the list is built, then checked
MarkUsersAsEnterpriseOwnersCheckedLast ==
    /\ pc = "_mark_users_as_enterprise_owners"
    /\ processed_user_data' = _mark_users_as_enterprise_owners(user_data, affiliated_owner_data)
    /\ IF OrgsMatch(user_org_data, owner_org_data)
       THEN /\ pc' = "load_organization_users"
            /\ steps' = Append(steps, "_mark_users_as_enterprise_owners")
            /\ raised' = raised
       ELSE /\ pc' = "raise"
            /\ raised' = "_mark_users_as_enterprise_owners"
            /\ steps' = steps
    /\ UNCHANGED <<graph, clock, metadata, runs, update_tag, graph0, metadata0,
                   user_data, user_org_data, owners_edges, affiliated_owner_data,
                   unaffiliated_owner_data, owner_org_data, call, ncalls>>

\* user.copy() in place of deepcopy(user) at line 151: the copy shares the node
\* dict with the input record, so line 152 writes the flag into the input too
MarkUsersAsEnterpriseOwnersShallowCopy ==
    /\ pc = "_mark_users_as_enterprise_owners"
    /\ IF OrgsMatch(user_org_data, owner_org_data)
       THEN /\ processed_user_data' =
                  _mark_users_as_enterprise_owners(user_data, affiliated_owner_data)
            /\ user_data' = processed_user_data'
            /\ pc' = "load_organization_users"
            /\ steps' = Append(steps, "_mark_users_as_enterprise_owners")
            /\ raised' = raised
       ELSE /\ pc' = "raise"
            /\ raised' = "_mark_users_as_enterprise_owners"
            /\ UNCHANGED <<processed_user_data, user_data, steps>>
    /\ UNCHANGED <<graph, clock, metadata, runs, update_tag, graph0, metadata0,
                   user_org_data, owners_edges, affiliated_owner_data,
                   unaffiliated_owner_data, owner_org_data, call, ncalls>>

MarkUsersAsEnterpriseOwners ==
    /\ pc = "_mark_users_as_enterprise_owners"
    /\ IF OrgsMatch(user_org_data, owner_org_data)
       THEN /\ processed_user_data' =
                  _mark_users_as_enterprise_owners(user_data, affiliated_owner_data)
            /\ pc' = "load_organization_users"
            /\ steps' = Append(steps, "_mark_users_as_enterprise_owners")
            /\ raised' = raised
       ELSE /\ pc' = "raise"
            /\ raised' = "_mark_users_as_enterprise_owners"
            /\ UNCHANGED <<processed_user_data, steps>>
    /\ UNCHANGED <<graph, clock, metadata, runs, update_tag, graph0, metadata0,
                   user_data, user_org_data, owners_edges, affiliated_owner_data,
                   unaffiliated_owner_data, owner_org_data, call, ncalls>>

LoadOrganizationUsers ==
    /\ pc = "load_organization_users"
    /\ clock' = clock + 1
    /\ graph' = load_organization_users(graph, processed_user_data, user_org_data,
                                        update_tag, clock')
    /\ pc' = "load_unaffiliated_owners"
    /\ steps' = Append(steps, "load_organization_users")
    /\ UNCHANGED <<metadata, runs, raised, update_tag, graph0, metadata0, locals, call, ncalls>>

\* lines 253 and 254 of sync swapped: the unaffiliated load runs where the member load should
LoadUnaffiliatedOwnersFirst ==
    /\ pc = "load_organization_users"
    /\ clock' = clock + 1
    /\ graph' = load_unaffiliated_owners(graph, unaffiliated_owner_data, owner_org_data,
                                         update_tag, clock')
    /\ pc' = "load_unaffiliated_owners"
    /\ steps' = Append(steps, "load_unaffiliated_owners")
    /\ UNCHANGED <<metadata, runs, raised, update_tag, graph0, metadata0, locals, call, ncalls>>

\* the unaffiliated load given a tag of its own instead of the run's
LoadUnaffiliatedOwnersOwnTag ==
    /\ pc = "load_unaffiliated_owners"
    /\ clock' = clock + 1
    /\ graph' = load_unaffiliated_owners(graph, unaffiliated_owner_data, owner_org_data,
                                         (update_tag % MaxTag) + 1, clock')
    /\ pc' = "run_cleanup_job"
    /\ steps' = Append(steps, "load_unaffiliated_owners")
    /\ UNCHANGED <<metadata, runs, raised, update_tag, graph0, metadata0, locals, call, ncalls>>

LoadUnaffiliatedOwners ==
    /\ pc = "load_unaffiliated_owners"
    /\ clock' = clock + 1
    /\ graph' = load_unaffiliated_owners(graph, unaffiliated_owner_data, owner_org_data,
                                         update_tag, clock')
    /\ pc' = "run_cleanup_job"
    /\ steps' = Append(steps, "load_unaffiliated_owners")
    /\ UNCHANGED <<metadata, runs, raised, update_tag, graph0, metadata0, locals, call, ncalls>>

RunCleanupJob ==
    /\ pc = "run_cleanup_job"
    /\ graph' = run_cleanup_job(graph, update_tag)
    /\ pc' = "merge_module_sync_metadata"
    /\ steps' = Append(steps, "run_cleanup_job")
    /\ UNCHANGED <<clock, metadata, runs, raised, update_tag, graph0, metadata0, locals,
                   call, ncalls>>

\* group_id taken from the organization's login instead of its url
MergeModuleSyncMetadataByLogin ==
    /\ pc = "merge_module_sync_metadata"
    /\ metadata' = metadata \cup
          { [group_type |-> "GitHubOrganization", group_id |-> user_org_data.login,
             synced_type |-> "GitHubOrganization", update_tag |-> update_tag] }
    /\ pc' = "return"
    /\ steps' = Append(steps, "merge_module_sync_metadata")
    /\ UNCHANGED <<graph, clock, runs, raised, update_tag, graph0, metadata0, locals,
                   call, ncalls>>

MergeModuleSyncMetadata ==
    /\ pc = "merge_module_sync_metadata"
    /\ metadata' = metadata \cup
          { [group_type |-> "GitHubOrganization", group_id |-> user_org_data.url,
             synced_type |-> "GitHubOrganization", update_tag |-> update_tag] }
    /\ pc' = "return"
    /\ steps' = Append(steps, "merge_module_sync_metadata")
    /\ UNCHANGED <<graph, clock, runs, raised, update_tag, graph0, metadata0, locals,
                   call, ncalls>>

\* the calls of sync into the GitHub API and neo4j, any of which may raise
ExternalCalls ==
    {"get_users", "get_enterprise_owners", "load_organization_users",
     "load_unaffiliated_owners", "run_cleanup_job", "merge_module_sync_metadata"}

\* sync with the cleanup job wrapped in try / except: its exception is swallowed
CallRaisesCleanupSwallowed ==
    /\ pc \in ExternalCalls
    /\ raised' = pc
    /\ pc' = IF pc = "run_cleanup_job" THEN "merge_module_sync_metadata" ELSE "raise"
    /\ UNCHANGED <<graph, clock, metadata, runs, steps, update_tag, graph0, metadata0,
                   locals, call, ncalls>>

\* an exception of a call propagates out of sync: sync has no try / except
\* the exception of a load raised after its statement was committed: the
\* failed unaffiliated load has written its batch
CallRaisesAfterWrite ==
    /\ pc \in ExternalCalls
    /\ raised' = pc
    /\ pc' = "raise"
    /\ graph' = IF pc = "load_unaffiliated_owners"
                THEN load_unaffiliated_owners(graph, unaffiliated_owner_data, owner_org_data,
                                              update_tag, clock)
                ELSE graph
    /\ UNCHANGED <<clock, metadata, runs, steps, update_tag, graph0, metadata0,
                   locals, call, ncalls>>

CallRaises ==
    /\ pc \in ExternalCalls
    /\ raised' = pc
    /\ pc' = "raise"
    /\ UNCHANGED <<graph, clock, metadata, runs, steps, update_tag, graph0, metadata0,
                   locals, call, ncalls>>

GetUsersSync == GetUsers(MaxLen)

GetEnterpriseOwnersSync == GetEnterpriseOwners(MaxLen)

Next ==
    \/ Sync
    \/ GetUsersSync
    \/ GetEnterpriseOwnersSync
    \/ MarkUsersAsEnterpriseOwners
    \/ LoadOrganizationUsers
    \/ LoadUnaffiliatedOwners
    \/ RunCleanupJob
    \/ MergeModuleSyncMetadata
    \/ CallRaises

Spec == Init /\ [][Next]_vars

(* ---------- the two loads, called directly ---------- *)
\* user_data as load_organization_users takes it: member edges carrying isEnterpriseOwner
DecoratedEdges == { MarkUser(m, urls) : m \in MemberEdges, urls \in {{}, Urls} }

CallLoadOrganizationUsers ==
    /\ ncalls < MaxCalls
    /\ ncalls' = ncalls + 1
    /\ clock' = clock + 1
    /\ \E rows \in SeqsUpTo(DecoratedEdges, MaxBatch), org \in OrgDescs, t \in 1..MaxTag :
          /\ graph' = load_organization_users(graph, rows, org, t, clock')
          /\ call' = [kind |-> "load_organization_users", rows |-> rows,
                      org_data |-> org, update_tag |-> t]
    /\ UNCHANGED <<metadata, runvars, locals>>

CallLoadUnaffiliatedOwners ==
    /\ ncalls < MaxCalls
    /\ ncalls' = ncalls + 1
    /\ clock' = clock + 1
    /\ \E rows \in SeqsUpTo(OwnerEdges, MaxBatch), org \in OrgDescs, t \in 1..MaxTag :
          /\ graph' = load_unaffiliated_owners(graph, rows, org, t, clock')
          /\ call' = [kind |-> "load_unaffiliated_owners", rows |-> rows,
                      org_data |-> org, update_tag |-> t]
    /\ UNCHANGED <<metadata, runvars, locals>>

\* a load whose session.run is given the rows one by one, each in its own
\* transaction: the failing call leaves the rows before the failure written
CallLoadRaisesRowByRow ==
    /\ ncalls < MaxCalls
    /\ ncalls' = ncalls + 1
    /\ clock' = clock + 1
    /\ \E callee \in {"load_organization_users", "load_unaffiliated_owners"},
          org \in OrgDescs, t \in 1..MaxTag :
          /\ \E rows \in IF callee = "load_organization_users"
                         THEN SeqsUpTo(DecoratedEdges, MaxBatch)
                         ELSE SeqsUpTo(OwnerEdges, MaxBatch) :
                \E k \in 0..Len(rows) - 1 :
                   graph' = IF callee = "load_organization_users"
                            THEN load_organization_users(graph, SubSeq(rows, 1, k), org, t, clock')
                            ELSE load_unaffiliated_owners(graph, SubSeq(rows, 1, k), org, t, clock')
          /\ call' = [NoCall EXCEPT !.kind = "raise"] @@ [callee |-> callee]
    /\ UNCHANGED <<metadata, runvars, locals>>

\* session.run raises (lines 187-193, 233-239): each load is one call of
\* session.run with one statement over the whole batch, an auto-commit
\* transaction, which the database rolls back as a whole when it fails
CallLoadRaises ==
    /\ ncalls < MaxCalls
    /\ ncalls' = ncalls + 1
    /\ clock' = clock + 1
    /\ \E callee \in {"load_organization_users", "load_unaffiliated_owners"},
          org \in OrgDescs, t \in 1..MaxTag :
          /\ \E rows \in IF callee = "load_organization_users"
                         THEN SeqsUpTo(DecoratedEdges, MaxBatch)
                         ELSE SeqsUpTo(OwnerEdges, MaxBatch) :
                graph' = graph
          /\ call' = [NoCall EXCEPT !.kind = "raise"] @@ [callee |-> callee]
    /\ UNCHANGED <<metadata, runvars, locals>>

NextLoad ==
    \/ CallLoadOrganizationUsers
    \/ CallLoadUnaffiliatedOwners
    \/ CallLoadRaises

LoadSpec == Init /\ [][NextLoad]_vars

(* ---------- reconciliation alone: partition and marking over fetched data ---------- *)
InitReconcile ==
    /\ graph = EmptyGraph
    /\ clock = 0
    /\ metadata = {}
    /\ pc = "get_enterprise_owners"
    /\ runs = 1
    /\ steps = <<"get_users">>
    /\ raised = Null
    /\ update_tag = 1
    /\ user_data \in SeqsUpTo(MemberEdges, MaxRecLen)
    /\ user_org_data \in OrgDescs
    /\ owners_edges = << >>
    /\ affiliated_owner_data = << >>
    /\ unaffiliated_owner_data = << >>
    /\ owner_org_data = NoOrg
    /\ processed_user_data = << >>
    /\ graph0 = EmptyGraph
    /\ metadata0 = {}
    /\ call = NoCall
    /\ ncalls = 0

GetEnterpriseOwnersReconcile == GetEnterpriseOwners(MaxRecLen)

NextReconcile ==
    \/ GetEnterpriseOwnersReconcile
    \/ MarkUsersAsEnterpriseOwners

ReconcileSpec == InitReconcile /\ [][NextReconcile]_vars

(***************************************************************************)
(* RunSpec: one whole run of sync, without failing calls, over member and  *)
(* owner lists of up to MaxRecLen edges, on an empty graph or on the graph *)
(* an earlier run left.                                                    *)
(***************************************************************************)

\* the graph after an earlier run under tag 1 in which u1 was a member of o1
\* and u2 an unaffiliated owner
PriorGraph ==
    LET org == [url |-> "o1", login |-> "l1"]
        member == MarkUser([hasTwoFactorEnabled |-> Null, role |-> "MEMBER",
                            node |-> UserNode("u1", "a")], {})
        owner == [organizationRole |-> "UNAFFILIATED", node |-> UserNode("u2", "c")]
    IN  run_cleanup_job(
          load_unaffiliated_owners(
            load_organization_users(EmptyGraph, <<member>>, org, 1, 1),
            <<owner>>, org, 1, 2),
          1)

PriorMetadata ==
    { [group_type |-> "GitHubOrganization", group_id |-> "o1",
       synced_type |-> "GitHubOrganization", update_tag |-> 1] }

InitRun ==
    /\ graph \in {EmptyGraph, PriorGraph}
    /\ clock = 2
    /\ metadata = IF graph = EmptyGraph THEN {} ELSE PriorMetadata
    /\ pc = "get_enterprise_owners"
    /\ runs = IF graph = EmptyGraph THEN 1 ELSE 2
    /\ steps = <<"get_users">>
    /\ raised = Null
    /\ update_tag = MaxTag
    /\ user_data \in SeqsUpTo(MemberEdges, MaxRecLen)
    /\ user_org_data \in OrgDescs
    /\ owners_edges = << >>
    /\ affiliated_owner_data = << >>
    /\ unaffiliated_owner_data = << >>
    /\ owner_org_data = NoOrg
    /\ processed_user_data = << >>
    /\ graph0 = graph
    /\ metadata0 = metadata
    /\ call = NoCall
    /\ ncalls = 0

NextRun ==
    \/ GetEnterpriseOwnersReconcile
    \/ MarkUsersAsEnterpriseOwners
    \/ LoadOrganizationUsers
    \/ LoadUnaffiliatedOwners
    \/ RunCleanupJob
    \/ MergeModuleSyncMetadata

RunSpec == InitRun /\ [][NextRun]_vars

(* ---------- properties ---------- *)
Range(seq) == { seq[i] : i \in 1..Len(seq) }

MARK == "_mark_users_as_enterprise_owners"

WithId(nodes, id) == { n \in nodes : n.id = id }

SameRel(r, q) == r.type = q.type /\ r.src = q.src /\ r.dst = q.dst

\* C1: a load_unaffiliated_owners call leaves role and has_2fa_enabled of every
\* GitHubUser node that existed before it and whose id is in its batch as they were
C1_NonClobber ==
    [][call'.kind = "load_unaffiliated_owners" =>
         \A n \in graph.users :
            n.id \in UrlsOf(call'.rows) =>
               /\ WithId(graph'.users, n.id) # {}
               /\ \A m \in WithId(graph'.users, n.id) :
                     /\ Prop(m, "role") = Prop(n, "role")
                     /\ Prop(m, "has_2fa_enabled") = Prop(n, "has_2fa_enabled")]_vars

\* a member written as ADMIN with 2FA, then rewritten by an unaffiliated load for
\* another organization under another tag
C1_Witness ==
    /\ call.kind = "load_unaffiliated_owners"
    /\ \E n \in graph.users, r \in graph.rels :
          /\ n.id \in UrlsOf(call.rows)
          /\ Prop(n, "role") = "ADMIN"
          /\ Prop(n, "has_2fa_enabled") = True
          /\ Prop(n, "username") = "login_c"
          /\ n.firstseen < clock
          /\ r.type = "MEMBER_OF" /\ r.src = n.id
          /\ r.dst # call.org_data.url
          /\ r.lastupdated # call.update_tag

OrgsDisagree == user_org_data.url # owner_org_data.url \/ user_org_data.login # owner_org_data.login

WriteSteps ==
    {"load_organization_users", "load_unaffiliated_owners", "run_cleanup_job",
     "merge_module_sync_metadata"}

\* C2: when the two organization descriptors fetched in a run disagree on url or
\* login, the run raises with no load, cleanup or metadata merge executed and the
\* graph and the metadata as they were when the run began
C2_MismatchFailsBeforeWrites ==
    ({"get_users", "get_enterprise_owners"} \subseteq Range(steps) /\ OrgsDisagree) =>
        /\ pc \in {MARK, "raise"}
        /\ pc = "raise" => raised = MARK
        /\ Range(steps) \cap WriteSteps = {}
        /\ graph = graph0
        /\ metadata = metadata0

C2_Witness ==
    /\ pc = "raise"
    /\ raised = MARK
    /\ user_org_data.url = owner_org_data.url
    /\ user_org_data.login # owner_org_data.login
    /\ graph0.users # {}
    /\ Len(user_data) > 0
    /\ Len(unaffiliated_owner_data) > 0

\* C3: the check raises exactly when the urls differ or the logins differ; when
\* both are equal the run goes on to the load with the descriptors unchanged
C3_ValidationIff ==
    [][pc = MARK =>
         IF OrgsDisagree
         THEN pc' = "raise" /\ raised' = MARK
         ELSE /\ pc' = "load_organization_users"
              /\ raised' = Null
              /\ user_org_data' = user_org_data
              /\ owner_org_data' = owner_org_data]_vars

C3_Witness ==
    /\ pc = "raise"
    /\ raised = MARK
    /\ user_org_data.url = owner_org_data.url
    /\ user_org_data.login # owner_org_data.login

\* C4: marking returns as many records as there are members, and a member is
\* flagged isEnterpriseOwner exactly when its url is the url of an owner edge
\* whose organizationRole is not UNAFFILIATED
C4_MarkedIffAffiliatedOwner ==
    MARK \in Range(steps) =>
        /\ Len(processed_user_data) = Len(user_data)
        /\ \A i \in 1..Len(user_data) :
              /\ processed_user_data[i].node.url = user_data[i].node.url
              /\ processed_user_data[i].node.isEnterpriseOwner \in {True, False}
              /\ processed_user_data[i].node.isEnterpriseOwner = True <=>
                    \E j \in 1..Len(owners_edges) :
                       /\ owners_edges[j].node.url = user_data[i].node.url
                       /\ owners_edges[j].organizationRole # "UNAFFILIATED"

C4_Witness ==
    /\ MARK \in Range(steps)
    /\ \E i, k \in 1..Len(user_data), j, l \in 1..Len(owners_edges) :
          /\ processed_user_data[i].node.isEnterpriseOwner = True
          /\ processed_user_data[k].node.isEnterpriseOwner = False
          /\ owners_edges[j].node.url = user_data[k].node.url
          /\ owners_edges[j].organizationRole = "UNAFFILIATED"
          /\ owners_edges[l].node.url = user_data[i].node.url
          /\ owners_edges[l].organizationRole = "DIRECT_MEMBER"

\* C5: no url is both in the marked member list and in the unaffiliated owner list
C5_Disjoint ==
    MARK \in Range(steps) =>
        UrlsOf(processed_user_data) \cap UrlsOf(unaffiliated_owner_data) = {}

FirstseenKept(old, new, Same(_, _)) ==
    /\ \A n \in old :
          /\ \E m \in new : Same(n, m)
          /\ \A m \in new : Same(n, m) => m.firstseen = n.firstseen
    /\ \A m \in new : (~ \E n \in old : Same(n, m)) => m.firstseen = clock'

SameId(n, m) == n.id = m.id

\* C6: a load call of either kind leaves the firstseen of every organization,
\* user and relationship that existed before it unchanged, and stamps what it
\* creates with its own timestamp
C6_FirstseenSetOnce ==
    [][call'.kind \in {"load_organization_users", "load_unaffiliated_owners"} =>
         /\ FirstseenKept(graph.orgs, graph'.orgs, SameId)
         /\ FirstseenKept(graph.users, graph'.users, SameId)
         /\ FirstseenKept(graph.rels, graph'.rels, SameRel)]_vars

\* a second call has refreshed an organization, a user and a relationship made by the first
C6_Witness ==
    /\ ncalls = 2
    /\ \E o \in graph.orgs, n \in graph.users, r \in graph.rels :
          /\ o.firstseen < clock /\ n.firstseen < clock /\ r.firstseen < clock
          /\ o.id = call.org_data.url
          /\ n.id \in UrlsOf(call.rows)
          /\ r.src = n.id /\ r.dst = o.id
          /\ r.lastupdated = call.update_tag
          /\ r.type = "UNAFFILIATED"
    /\ \E n \in graph.users : n.firstseen = clock

StripNode(n) == [x \in DOMAIN n \ {"lastupdated"} |-> n[x]]

Strip(g) ==
    [orgs |-> { StripNode(n) : n \in g.orgs },
     users |-> { StripNode(n) : n \in g.users },
     rels |-> { StripNode(n) : n \in g.rels }]

NoDuplicates(g) ==
    /\ \A n, m \in g.orgs : n.id = m.id => n = m
    /\ \A n, m \in g.users : n.id = m.id => n = m
    /\ \A r, q \in g.rels : SameRel(r, q) => r = q

SameBatch(c, d) == c.kind = d.kind /\ c.rows = d.rows /\ c.org_data = d.org_data

\* C7: load_organization_users applied again with the same batch and organization
\* (under another tag, later) gives the nodes and relationships of the first application,
\* none duplicated, equal in every property other than lastupdated
C7_Phase1Idempotent ==
    [][call'.kind = "load_organization_users" =>
         /\ NoDuplicates(graph')
         /\ Strip(load_organization_users(graph', call'.rows, call'.org_data,
                                          (call'.update_tag % MaxTag) + 1, clock' + 1))
               = Strip(graph')
         /\ SameBatch(call, call') => Strip(graph') = Strip(graph)]_vars

\* the same two-row batch with one url twice, loaded twice under two tags
C7_Witness ==
    /\ ncalls = 2
    /\ call.kind = "load_organization_users"
    /\ Len(call.rows) = 2
    /\ call.rows[1].node.url = call.rows[2].node.url
    /\ call.rows[1] # call.rows[2]
    /\ \E n \in graph.users, r \in graph.rels :
          /\ n.firstseen < clock
          /\ n.lastupdated = call.update_tag
          /\ Prop(n, "role") = call.rows[2].role
          /\ r.type = "MEMBER_OF" /\ r.src = n.id
          /\ r.firstseen < clock
          /\ r.lastupdated = call.update_tag
    /\ \A o \in graph.orgs : o.firstseen < clock
    /\ \A n \in graph.users : n.firstseen < clock

\* C8: after load_unaffiliated_owners every owner of the batch has a GitHubUser
\* node with is_enterprise_owner = true and an UNAFFILIATED relationship to the
\* organization; a node the call created carries neither role nor has_2fa_enabled
C8_UnaffiliatedWrite ==
    [][call'.kind = "load_unaffiliated_owners" =>
         \A i \in 1..Len(call'.rows) :
            LET url == call'.rows[i].node.url IN
            /\ WithId(graph'.users, url) # {}
            /\ \A m \in WithId(graph'.users, url) :
                  /\ Prop(m, "is_enterprise_owner") = True
                  /\ WithId(graph.users, url) = {} =>
                        /\ "role" \notin DOMAIN m
                        /\ "has_2fa_enabled" \notin DOMAIN m
            /\ \E r \in graph'.rels :
                  r.type = "UNAFFILIATED" /\ r.src = url /\ r.dst = call'.org_data.url]_vars

\* one call has created an owner's node and turned the flag of a member's node
C8_Witness ==
    /\ call.kind = "load_unaffiliated_owners"
    /\ \E n, m \in graph.users :
          /\ {n.id, m.id} \subseteq UrlsOf(call.rows)
          /\ n.firstseen = clock
          /\ "role" \notin DOMAIN n
          /\ Prop(n, "is_enterprise_owner") = True
          /\ m.firstseen < clock
          /\ Prop(m, "role") = "MEMBER"
          /\ Prop(m, "is_enterprise_owner") = True
          /\ \E r \in graph.rels : r.type = "UNAFFILIATED" /\ r.src = n.id

UnaffiliatedUrls(edges) ==
    { edges[i].node.url : i \in { j \in 1..Len(edges) : edges[j].organizationRole = "UNAFFILIATED" } }

\* C9: in a run that began on an empty graph, once both loads have returned the
\* GitHubUser nodes are exactly the member urls and the urls of UNAFFILIATED owner
\* edges, and every relationship starts at one of them
C9_OnlyMembersAndUnaffiliated ==
    (graph0 = EmptyGraph /\ "load_unaffiliated_owners" \in Range(steps)) =>
        /\ { n.id : n \in graph.users } = UrlsOf(user_data) \cup UnaffiliatedUrls(owners_edges)
        /\ \A r \in graph.rels : r.src \in UrlsOf(user_data) \cup UnaffiliatedUrls(owners_edges)

\* an OWNER edge for a url that is no member: the run wrote the member only
C9_Witness ==
    /\ graph0 = EmptyGraph
    /\ "load_unaffiliated_owners" \in Range(steps)
    /\ Len(user_data) > 0
    /\ \E j \in 1..Len(owners_edges) :
          /\ owners_edges[j].organizationRole = "OWNER"
          /\ owners_edges[j].node.url \notin UrlsOf(user_data)
          /\ WithId(graph.users, owners_edges[j].node.url) = {}
    /\ graph.users # {}

SyncOrder ==
    <<"get_users", "get_enterprise_owners", MARK, "load_organization_users",
      "load_unaffiliated_owners", "run_cleanup_job", "merge_module_sync_metadata">>

Position(step) == CHOOSE i \in 1..Len(SyncOrder) : SyncOrder[i] = step

\* C10: the metadata merge is called only after every earlier call of the run
\* returned; a call that raises ends the run with no later call executed and no
\* metadata recorded
C10_MetadataOnlyOnSuccess ==
    [][/\ "merge_module_sync_metadata" \in Range(steps') =>
             steps' = SyncOrder /\ raised' = Null
       /\ metadata' # metadata => steps' = SyncOrder /\ raised' = Null
       /\ raised' # Null =>
             /\ pc' = "raise"
             /\ steps' = SubSeq(SyncOrder, 1, Position(raised') - 1)
             /\ metadata' = metadata0'
       /\ pc = "raise" => pc' = "get_users" /\ runs' = runs + 1 /\ steps' = << >>]_vars

\* the cleanup job raised after both loads wrote: no metadata for the run
C10_Witness ==
    /\ pc = "raise"
    /\ raised = "run_cleanup_job"
    /\ graph # graph0
    /\ metadata = metadata0
    /\ metadata0 # {}

\* what each call of sync does, in the order its body does it: get_enterprise_owners
\* fetches and then partitions (lines 108-123), _mark_users_as_enterprise_owners
\* compares the organizations and then marks (lines 143-154)
CallEvents(c) ==
    CASE c = "get_users" -> <<"fetch_members">>
      [] c = "get_enterprise_owners" -> <<"fetch_owners", "partition">>
      [] c = MARK -> <<"validate", "mark">>
      [] c = "load_organization_users" -> <<"write_affiliated">>
      [] c = "load_unaffiliated_owners" -> <<"write_unaffiliated">>
      [] c = "run_cleanup_job" -> <<"cleanup">>
      [] OTHER -> <<"metadata">>

RECURSIVE EventsOf(_)
EventsOf(calls) ==
    IF calls = << >> THEN << >> ELSE CallEvents(Head(calls)) \o EventsOf(Tail(calls))

\* the events of this run so far; a failed comparison is an event too
Events == EventsOf(steps) \o (IF raised = MARK THEN <<"validate">> ELSE << >>)

Before(a, b, seq) == \E i, j \in 1..Len(seq) : i < j /\ seq[i] = a /\ seq[j] = b

IsPrefix(a, b) == Len(a) <= Len(b) /\ SubSeq(b, 1, Len(a)) = a

\* C11 as stated: the partition of the owner edges and the marking both come
\* after a comparison of the two organizations that found them equal
C11_ReconcileAfterValidation ==
    \A e \in {"partition", "mark"} :
       e \in Range(Events) => Before("validate", e, Events) /\ ~OrgsDisagree

\* C11: the marking comes after a comparison that found the organizations equal;
\* the partition is made by get_enterprise_owners right after the owner fetch and
\* before the comparison, and when the comparison fails nothing is marked
C11_MarkAfterValidation ==
    /\ "mark" \in Range(Events) => Before("validate", "mark", Events) /\ ~OrgsDisagree
    /\ processed_user_data # << >> => "mark" \in Range(Events)
    /\ "partition" \in Range(Events) =>
          /\ Before("fetch_owners", "partition", Events)
          /\ ~Before("validate", "partition", Events)
    /\ raised = MARK => "mark" \notin Range(Events) /\ processed_user_data = << >>

\* a marked list made after an equal comparison, over a partition with both kinds
C11_Witness ==
    /\ Len(user_data) = 2
    /\ Len(affiliated_owner_data) > 0
    /\ Len(unaffiliated_owner_data) > 0
    /\ "mark" \in Range(Events)
    /\ \E i \in 1..Len(processed_user_data) :
          processed_user_data[i].node.isEnterpriseOwner = True

ClaimedOrder ==
    <<"fetch_members", "fetch_owners", "validate", "partition", "mark",
      "write_affiliated", "write_unaffiliated", "cleanup", "metadata">>

EventOrder ==
    <<"fetch_members", "fetch_owners", "partition", "validate", "mark",
      "write_affiliated", "write_unaffiliated", "cleanup", "metadata">>

\* C12 as stated: the events of a run are an initial part of fetches, validation,
\* reconciliation (partition, marking), member load, unaffiliated load, cleanup, metadata
C12_ClaimedOrder == IsPrefix(Events, ClaimedOrder)

\* C12: the events of a run are an initial part of member fetch, owner fetch,
\* partition, validation, marking, member load, unaffiliated load, cleanup,
\* metadata: none twice, the unaffiliated load after the member load, the
\* partition and the marking after both fetches
C12_FixedOrder ==
    /\ IsPrefix(Events, EventOrder)
    /\ IsPrefix(steps, SyncOrder)
    /\ pc \notin {"return", "raise"} => pc = SyncOrder[Len(steps) + 1]

\* a second run has gone through every step
C12_Witness ==
    /\ runs = 2
    /\ pc = "return"
    /\ steps = SyncOrder
    /\ Events = EventOrder
    /\ graph0 # EmptyGraph

\* the rows of a load call are all in the graph: user node and relationship to
\* the call's organization, stamped by the call
BatchApplied(g, c) ==
    /\ \E o \in g.orgs : o.id = c.org_data.url /\ o.lastupdated = c.update_tag
    /\ \A i \in 1..Len(c.rows) :
          /\ \E n \in g.users : n.id = c.rows[i].node.url /\ n.lastupdated = c.update_tag
          /\ \E r \in g.rels :
                /\ r.src = c.rows[i].node.url
                /\ r.dst = c.org_data.url
                /\ r.type = (IF c.kind = "load_organization_users"
                             THEN "MEMBER_OF" ELSE "UNAFFILIATED")
                /\ r.lastupdated = c.update_tag

RunMetadata(type) ==
    [group_type |-> type, group_id |-> user_org_data.url,
     synced_type |-> type, update_tag |-> update_tag]

RunSucceeded == pc = "return" /\ steps = SyncOrder

\* C14 as stated: a successful run records group_type and synced_type "Organization"
C14_MetadataOrganization ==
    RunSucceeded => RunMetadata("Organization") \in metadata

\* C14: a successful run records exactly one entry, with group_type and
\* synced_type "GitHubOrganization", group_id the url of the validated
\* organization and update_tag the run's tag
C14_MetadataGitHubOrganization ==
    RunSucceeded =>
       /\ metadata = metadata0 \cup {RunMetadata("GitHubOrganization")}
       /\ user_org_data.url = owner_org_data.url
       /\ \A m \in metadata : m.group_type # "Organization" /\ m.synced_type # "Organization"

\* a second successful run added its entry to that of the first
C14_Witness ==
    /\ RunSucceeded
    /\ runs = 2
    /\ RunMetadata("GitHubOrganization") \notin metadata0
    /\ Cardinality(metadata) = 2

\* node m holds the values of the member record user and the tag t
HoldsRecord(m, user, t) ==
    /\ Prop(m, "fullname") = user.node.name
    /\ Prop(m, "username") = user.node.login
    /\ Prop(m, "is_site_admin") = user.node.isSiteAdmin
    /\ Prop(m, "is_enterprise_owner") = user.node.isEnterpriseOwner
    /\ Prop(m, "email") = user.node.email
    /\ Prop(m, "company") = user.node.company
    /\ Prop(m, "has_2fa_enabled") = user.hasTwoFactorEnabled
    /\ Prop(m, "role") = user.role
    /\ m.lastupdated = t

\* C15 as stated: after load_organization_users the node of every record of the
\* batch holds that record's values and the call's tag
C15_HoldsEveryRecord ==
    [][call'.kind = "load_organization_users" =>
         \A i \in 1..Len(call'.rows) :
            /\ WithId(graph'.users, call'.rows[i].node.url) # {}
            /\ \A m \in WithId(graph'.users, call'.rows[i].node.url) :
                  HoldsRecord(m, call'.rows[i], call'.update_tag)]_vars

\* C15: after load_organization_users the node of every url of the batch holds
\* the values of the last record of the batch with that url and the call's tag,
\* whatever it held before the call
C15_HoldsLastRecord ==
    [][call'.kind = "load_organization_users" =>
         \A i \in 1..Len(call'.rows) :
            (\A j \in 1..Len(call'.rows) :
                call'.rows[j].node.url = call'.rows[i].node.url => j <= i) =>
               /\ WithId(graph'.users, call'.rows[i].node.url) # {}
               /\ \A m \in WithId(graph'.users, call'.rows[i].node.url) :
                     HoldsRecord(m, call'.rows[i], call'.update_tag)]_vars

\* a member load has set to false the flag of a node that an earlier
\* unaffiliated load had created with the flag true
C15_Witness ==
    /\ call.kind = "load_organization_users"
    /\ \E m \in graph.users :
          /\ m.id \in UrlsOf(call.rows)
          /\ m.firstseen < clock
          /\ Prop(m, "is_enterprise_owner") = False
          /\ Prop(m, "role") # Null
          /\ \E r \in graph.rels : r.type = "UNAFFILIATED" /\ r.src = m.id
          /\ ~\E r \in graph.rels : r.type = "MEMBER_OF" /\ r.src = m.id /\ r.firstseen < clock

Count(edges, url) == Cardinality({ i \in 1..Len(edges) : edges[i].node.url = url })

\* C16: the marking returns one marked member per member edge, a url listed k
\* times being marked k times, and yet the graph never holds two GitHubUser
\* nodes of one url, two GitHubOrganization nodes of one url or two
\* relationships of one type between one user and one organization
C16_DuplicatesCollapse ==
    /\ MARK \in Range(steps) =>
          /\ Len(processed_user_data) = Len(user_data)
          /\ \A u \in Urls : Count(processed_user_data, u) = Count(user_data, u)
    /\ NoDuplicates(graph)

\* a run after an earlier one has written a member list that names one url
\* twice: two marked members, one node, one MEMBER_OF relationship
C16_Witness ==
    /\ pc = "return"
    /\ graph0 = PriorGraph
    /\ \E u \in Urls :
          /\ Count(user_data, u) = 2
          /\ Count(processed_user_data, u) = 2
          /\ Cardinality(WithId(graph.users, u)) = 1
          /\ Cardinality({ r \in graph.rels : r.src = u /\ r.type = "MEMBER_OF" }) = 1

StripTimesOf(n) == [x \in DOMAIN n \ {"firstseen", "lastupdated"} |-> n[x]]

StripTimes(g) ==
    [orgs |-> { StripTimesOf(n) : n \in g.orgs },
     users |-> { StripTimesOf(n) : n \in g.users },
     rels |-> { StripTimesOf(n) : n \in g.rels }]

\* lines 253 and 254 of sync on graph g with this run's lists, under tag t from time ts on
BothPhases(g, t, ts) ==
    load_unaffiliated_owners(
       load_organization_users(g, processed_user_data, user_org_data, t, ts + 1),
       unaffiliated_owner_data, owner_org_data, t, ts + 2)

Phase2Failed == pc = "raise" /\ raised = "load_unaffiliated_owners"

\* C17: when the member load has returned and the unaffiliated load has failed,
\* the graph has the run's members, stamped with its tag, and nothing of its
\* unaffiliated owners; both loads run anew on that graph with the same lists,
\* under any tag, give the graph that both loads give on the graph the run
\* began with, firstseen and lastupdated apart
C17_RetryConverges ==
    Phase2Failed =>
       /\ \A i \in 1..Len(processed_user_data) :
             LET url == processed_user_data[i].node.url IN
             /\ \E n \in graph.users : n.id = url /\ n.lastupdated = update_tag
             /\ \E r \in graph.rels :
                   /\ r.type = "MEMBER_OF" /\ r.src = url /\ r.dst = user_org_data.url
                   /\ r.lastupdated = update_tag
       /\ { r \in graph.rels : r.type = "UNAFFILIATED" }
             = { r \in graph0.rels : r.type = "UNAFFILIATED" }
       /\ \A n \in graph.users : n.id \notin UrlsOf(user_data) => n \in graph0.users
       /\ \A t \in 1..MaxTag :
             StripTimes(BothPhases(graph, t, clock))
                = StripTimes(BothPhases(graph0, update_tag, clock - 1))

\* the unaffiliated load of a run with a member and an unaffiliated owner has
\* failed, on a graph an earlier run had written
C17_Witness ==
    /\ Phase2Failed
    /\ Len(processed_user_data) = 1
    /\ Len(unaffiliated_owner_data) = 1
    /\ graph0 # EmptyGraph
    /\ graph # graph0
    /\ BothPhases(graph, update_tag, clock) # graph

\* user url has a node and a relationship of the type to the run's organization,
\* both stamped with the run's tag
StampedByRun(url, type) ==
    /\ WithId(graph.users, url) # {}
    /\ \A n \in WithId(graph.users, url) : n.lastupdated = update_tag
    /\ \E r \in graph.rels : r.type = type /\ r.src = url /\ r.dst = user_org_data.url
    /\ \A r \in graph.rels :
          r.type = type /\ r.src = url /\ r.dst = user_org_data.url =>
             r.lastupdated = update_tag

\* C18: once the member load of a run has returned its members are stamped
\* with the run's tag, and once the unaffiliated load has returned, through to
\* the end of a successful run, so are the organization, the members and the
\* unaffiliated owners, nodes and relationships: both loads used one tag
C18_OneTag ==
    /\ "load_organization_users" \in Range(steps) =>
          /\ WithId(graph.orgs, user_org_data.url) # {}
          /\ \A o \in WithId(graph.orgs, user_org_data.url) : o.lastupdated = update_tag
          /\ \A i \in 1..Len(user_data) : StampedByRun(user_data[i].node.url, "MEMBER_OF")
    /\ "load_unaffiliated_owners" \in Range(steps) =>
          \A i \in 1..Len(unaffiliated_owner_data) :
             StampedByRun(unaffiliated_owner_data[i].node.url, "UNAFFILIATED")

\* a successful run has stamped anew a member and an unaffiliated owner that an
\* earlier run had written under another tag
C18_Witness ==
    /\ RunSucceeded
    /\ Len(user_data) = 1
    /\ Len(unaffiliated_owner_data) = 1
    /\ user_data[1].node.url # unaffiliated_owner_data[1].node.url
    /\ \A n \in graph0.users : n.lastupdated # update_tag
    /\ UrlsOf(user_data) \cup UrlsOf(unaffiliated_owner_data) = { n.id : n \in graph0.users }

Ids(nodes) == { n.id : n \in nodes }

RelKeys(rels) == { <<r.type, r.src, r.dst>> : r \in rels }

\* C19: a load call of either kind, returning or failing, leaves in the graph
\* every GitHubUser node, every GitHubOrganization node and every MEMBER_OF and
\* UNAFFILIATED relationship that was there before it
C19_NeverDeletes ==
    [][ /\ Ids(graph.users) \subseteq Ids(graph'.users)
        /\ Ids(graph.orgs) \subseteq Ids(graph'.orgs)
        /\ RelKeys(graph.rels) \subseteq RelKeys(graph'.rels)
        /\ Cardinality(graph.users) <= Cardinality(graph'.users)
        /\ Cardinality(graph.orgs) <= Cardinality(graph'.orgs)
        /\ Cardinality(graph.rels) <= Cardinality(graph'.rels) ]_vars

\* a user written as a member by an earlier call is written as an unaffiliated
\* owner of the same organization by a later one and has both relationships
C19_Witness ==
    /\ call.kind = "load_unaffiliated_owners"
    /\ ncalls = 2
    /\ \E r, q \in graph.rels :
          /\ r.type = "MEMBER_OF" /\ q.type = "UNAFFILIATED"
          /\ r.src = q.src /\ r.dst = q.dst
          /\ r.src \in UrlsOf(call.rows)
          /\ r.firstseen < clock
          /\ q.firstseen = clock

Perms(n) == { p \in [1..n -> 1..n] : \A i, j \in 1..n : p[i] = p[j] => i = j }

Permute(seq, p) == [i \in 1..Len(seq) |-> seq[p[i]]]

SameMultiset(a, b) ==
    /\ Len(a) = Len(b)
    /\ \A e \in Range(a) \cup Range(b) :
          Cardinality({ i \in 1..Len(a) : a[i] = e }) = Cardinality({ i \in 1..Len(b) : b[i] = e })

\* C20: with the owner edges in any other order the marked member list is the
\* same list and the unaffiliated owners are the same owners in another order;
\* with the member edges in any other order the marked members are the same
\* marked members in that order, each flag as before
C20_OrderIndependent ==
    MARK \in Range(steps) =>
       /\ \A p \in Perms(Len(owners_edges)) :
             LET edges == Permute(owners_edges, p) IN
             /\ _mark_users_as_enterprise_owners(user_data, affiliated_owners(edges))
                   = processed_user_data
             /\ SameMultiset(unaffiliated_owners(edges), unaffiliated_owner_data)
       /\ \A p \in Perms(Len(user_data)) :
             LET marked == _mark_users_as_enterprise_owners(Permute(user_data, p),
                                                            affiliated_owner_data) IN
             /\ marked = Permute(processed_user_data, p)
             /\ SameMultiset(marked, processed_user_data)

\* two members, one of them marked because of the second of two affiliated
\* owners, and the owner list in an order that is not its only one
C20_Witness ==
    /\ MARK \in Range(steps)
    /\ Len(user_data) = 2
    /\ Len(affiliated_owner_data) = 2
    /\ affiliated_owner_data[1].node.url # affiliated_owner_data[2].node.url
    /\ user_data[1].node.url # user_data[2].node.url
    /\ processed_user_data[1].node.isEnterpriseOwner = True
    /\ processed_user_data[1].node.url = affiliated_owner_data[2].node.url

\* record out is record in with isEnterpriseOwner added to its node and
\* nothing else changed
AddsOnlyFlag(in, out) ==
    /\ DOMAIN out = DOMAIN in
    /\ \A k \in DOMAIN in \ {"node"} : out[k] = in[k]
    /\ "isEnterpriseOwner" \notin DOMAIN in.node
    /\ DOMAIN out.node = DOMAIN in.node \cup {"isEnterpriseOwner"}
    /\ \A k \in DOMAIN in.node : out.node[k] = in.node[k]

\* C21: _mark_users_as_enterprise_owners, returning or raising, leaves the
\* member list, the affiliated owner list and both organizations as they were,
\* no member record gaining isEnterpriseOwner; each record it returns is its
\* member record with isEnterpriseOwner added and nothing else changed
C21_InputsUntouched ==
    [][pc = MARK =>
         /\ user_data' = user_data
         /\ affiliated_owner_data' = affiliated_owner_data
         /\ user_org_data' = user_org_data
         /\ owner_org_data' = owner_org_data
         /\ \A i \in 1..Len(user_data') : "isEnterpriseOwner" \notin DOMAIN user_data'[i].node
         /\ pc' = "raise" => processed_user_data' = processed_user_data
         /\ pc' # "raise" =>
               /\ Len(processed_user_data') = Len(user_data)
               /\ \A i \in 1..Len(user_data) :
                     AddsOnlyFlag(user_data[i], processed_user_data'[i])]_vars

\* the marking has returned two members, one marked true and one false, and
\* the member list still has both records without the flag
C21_Witness ==
    /\ MARK \in Range(steps)
    /\ Len(user_data) = 2
    /\ Len(affiliated_owner_data) > 0
    /\ processed_user_data[1].node.isEnterpriseOwner = True
    /\ processed_user_data[2].node.isEnterpriseOwner = False
    /\ processed_user_data[1].role = "ADMIN"
    /\ \A i \in 1..2 : "isEnterpriseOwner" \notin DOMAIN user_data[i].node

====
